---- MODULE Spec2Model ----
(***************************************************************************)
(* A model of the katello host tools: the enabled-repos report upload and *)
(* its on-disk cache (katello/repos.py), the dnf plugin and command that   *)
(* drive it (dnf-plugins/enabled_repos_upload.py), the zypper tracer hook  *)
(* (zypper_plugins/tracer_upload.py) and the package API front-ends        *)
(* (katello/agent/pulp/libdnf.py, libyum.py).                              *)
(***************************************************************************)
EXTENDS Integers, Sequences, FiniteSets, TLC

VARIABLES
    cacheFile,   \* repos.py: the text of EnabledRepoCache.CACHE_FILE, or NoFile
    conf,        \* enabled_repos_upload.py: the plugin's config file
    last,        \* observation of the last handler run: inputs, event trace, outcome
    hookCalls,   \* tracer_upload.py: PLUGINEND invocations so far
    acks,        \* tracer_upload.py: ack() frames sent so far
    commit       \* libdnf.py / libyum.py: API.commit of the API object in use

vars == <<cacheFile, conf, last, hookCalls, acks, commit>>

----------------------------------------------------------------------------
(* Bounds of the model.                                                    *)

MaxRepos == 1   \* longest list of enabled repositories in a report
MaxCalls == 3   \* most PLUGINEND frames followed in one behaviour
MaxItems == 2   \* most items in a transaction handed to transaction_report
MaxTx == 1      \* most items in a transaction the package manager resolves

----------------------------------------------------------------------------
(* Values.                                                                 *)

NoId == "None"
\* A file on disk: absent, or present with its text.
NoFile == [exists |-> FALSE, text |-> <<>>]
FileOf(text) == [exists |-> TRUE, text |-> text]
ConsumerIds == {"u1", "u2"}
RepoIds == {"a"}

RECURSIVE SeqsUpTo(_, _)
SeqsUpTo(S, n) ==
    IF n = 0 THEN {<<>>}
    ELSE LET shorter == SeqsUpTo(S, n - 1)
         IN shorter \cup {Append(s, x) : s \in {t \in shorter : Len(t) = n - 1}, x \in S}

\* report.content: the list of enabled repositories of the report.
Contents == SeqsUpTo(RepoIds, MaxRepos)

----------------------------------------------------------------------------
(* JSON text, as the token sequence json.dumps writes and json.loads reads. *)
(* A Python value is [kind |-> "dict", val |-> function from keys to lists] *)
(* or [kind |-> "list", val |-> sequence of strings].                       *)

Punct == {"{", "}", "[", "]", ":", ","}
IsStr(t) == t \notin Punct

PyDict(f) == [kind |-> "dict", val |-> f]
PyList(s) == [kind |-> "list", val |-> s]
EmptyMap == [k \in {} |-> <<>>]

\* Python's == on parsed values: values of different types are unequal.
PyEq(a, b) == a.kind = b.kind /\ a.val = b.val

RECURSIVE DumpItems(_, _)
DumpItems(s, i) ==
    IF i > Len(s) THEN <<>>
    ELSE (IF i > 1 THEN <<",">> ELSE <<>>) \o <<s[i]>> \o DumpItems(s, i + 1)

DumpList(s) == <<"[">> \o DumpItems(s, 1) \o <<"]">>

RECURSIVE DumpPairs(_, _, _)
DumpPairs(f, keys, first) ==
    IF keys = {} THEN <<>>
    ELSE LET k == CHOOSE x \in keys : TRUE
         IN (IF first THEN <<>> ELSE <<",">>) \o <<k, ":">> \o DumpList(f[k])
            \o DumpPairs(f, keys \ {k}, FALSE)

json_dumps(v) ==
    IF v.kind = "dict"
    THEN <<"{">> \o DumpPairs(v.val, DOMAIN v.val, TRUE) \o <<"}">>
    ELSE DumpList(v.val)

ParseFail == [ok |-> FALSE]
ParseOk(v, n) == [ok |-> TRUE, val |-> v, next |-> n]

RECURSIVE ListTail(_, _, _)
ListTail(toks, i, acc) ==
    IF i + 1 > Len(toks) \/ ~IsStr(toks[i]) THEN ParseFail
    ELSE IF toks[i + 1] = "]" THEN ParseOk(Append(acc, toks[i]), i + 2)
    ELSE IF toks[i + 1] = "," THEN ListTail(toks, i + 2, Append(acc, toks[i]))
    ELSE ParseFail

ParseList(toks, i) ==
    IF i + 1 > Len(toks) \/ toks[i] # "[" THEN ParseFail
    ELSE IF toks[i + 1] = "]" THEN ParseOk(<<>>, i + 2)
    ELSE ListTail(toks, i + 1, <<>>)

RECURSIVE ObjTail(_, _, _)
ObjTail(toks, i, acc) ==
    IF i + 1 > Len(toks) \/ ~IsStr(toks[i]) \/ toks[i + 1] # ":" THEN ParseFail
    ELSE LET l == ParseList(toks, i + 2)
         IN IF ~l.ok \/ l.next > Len(toks) THEN ParseFail
            ELSE LET acc2 == [k \in DOMAIN acc \cup {toks[i]} |->
                                 IF k = toks[i] THEN l.val ELSE acc[k]]
                 IN IF toks[l.next] = "}" THEN ParseOk(acc2, l.next + 1)
                    ELSE IF toks[l.next] = "," THEN ObjTail(toks, l.next + 1, acc2)
                    ELSE ParseFail

ParseObject(toks, i) ==
    IF i + 1 > Len(toks) \/ toks[i] # "{" THEN ParseFail
    ELSE IF toks[i + 1] = "}" THEN ParseOk(EmptyMap, i + 2)
    ELSE ObjTail(toks, i + 1, EmptyMap)

\* json.loads: [ok |-> FALSE] stands for ValueError (no value, bad syntax, extra data).
json_loads(toks) ==
    LET r == IF Len(toks) > 0 /\ toks[1] = "{" THEN ParseObject(toks, 1)
             ELSE ParseList(toks, 1)
    IN IF ~r.ok \/ r.next # Len(toks) + 1 THEN ParseFail
       ELSE [ok |-> TRUE,
             val |-> IF toks[1] = "{" THEN PyDict(r.val) ELSE PyList(r.val)]

----------------------------------------------------------------------------
(* katello/repos.py                                                        *)

\* One observable step of a handler: what was done, for which consumer, with what body.
Event(ev, cid, body) == [ev |-> ev, cid |-> cid, body |-> body]
Count(trace, ev) == Len(SelectSeq(trace, LAMBDA e : e.ev = ev))

\* What conn.request_put can do: succeed, or raise one of rhsm.connection's
\* exceptions (RestlibException: another client error; NetworkException: no connection).
CaughtByReportEnabled == {"RemoteServerException", "GoneException"}
PutResults == {"ok", "RemoteServerException", "GoneException",
               "RestlibException", "NetworkException"}

\* The identity certificate: a consumer id, or NoId when reading it raises IOError.
Certs == ConsumerIds \cup {NoId}

error_message(msg) == <<Event("error_message", NoId, <<msg>>)>>

lookup_consumer_id(cert) == IF cert = NoId THEN NoId ELSE cert

\* EnabledRepoCache.data
data(consumer_id, content) == PyDict([k \in {consumer_id} |-> content])

\* EnabledRepoCache.is_valid
is_valid_any_consumer(consumer_id, content, file) ==
    /\ file.exists
    /\ LET parsed == json_loads(file.text)
       IN parsed.ok /\ parsed.val.kind = "dict"
          /\ \E k \in DOMAIN parsed.val.val : parsed.val.val[k] = content

is_valid(consumer_id, content, file) ==
    IF ~file.exists THEN FALSE
    ELSE LET parsed == json_loads(file.text)
         IN IF ~parsed.ok THEN FALSE
            ELSE PyEq(data(consumer_id, content), parsed.val)

\* EnabledRepoCache.save
save_appending(consumer_id, content, file) ==
    LET old == IF file.exists THEN json_loads(file.text) ELSE ParseFail
        kept == IF old.ok /\ old.val.kind = "dict" THEN old.val.val ELSE EmptyMap
    IN FileOf(json_dumps(PyDict([k \in DOMAIN kept \cup {consumer_id} |->
                                   IF k = consumer_id THEN content ELSE kept[k]])))

save(consumer_id, content, file) == FileOf(json_dumps(data(consumer_id, content)))

\* EnabledRepoCache.remove_cache: os.remove, its OSError on an absent file passed over.
remove_cache(file) == IF file.exists THEN NoFile ELSE file

\* UEP.report_enabled
report_enabled_retrying(consumer_id, report, put) ==
    LET request == Event("PUT /systems/<id>/enabled_repos", consumer_id, report)
    IN IF put = "ok" THEN [trace |-> <<request>>, raised |-> "none"]
       ELSE [trace |-> <<request, request>> \o error_message(put), raised |-> "none"]

report_enabled_catching_all(consumer_id, report, put) ==
    LET request == Event("PUT /systems/<id>/enabled_repos", consumer_id, report)
    IN IF put = "ok" THEN [trace |-> <<request>>, raised |-> "none"]
       ELSE [trace |-> <<request>> \o error_message(put), raised |-> "none"]

report_enabled(consumer_id, report, put) ==
    LET request == Event("PUT /systems/<id>/enabled_repos", consumer_id, report)
    IN IF put = "ok" THEN [trace |-> <<request>>, raised |-> "none"]
       ELSE IF put \in CaughtByReportEnabled
            THEN [trace |-> <<request>> \o error_message(put), raised |-> "none"]
            ELSE [trace |-> <<request>>, raised |-> put]

\* upload_enabled_repos_report: the cache file it leaves, its events, what it raised.
upload_always(cert, content, put, file) ==
    LET consumer_id == lookup_consumer_id(cert)
        r == report_enabled(consumer_id, content, put)
    IN IF consumer_id = NoId
       THEN [file |-> file, raised |-> "none", trace |->
                error_message("Cannot upload enabled repos report, is this client registered?")]
       ELSE IF r.raised # "none" THEN [file |-> file, trace |-> r.trace, raised |-> r.raised]
       ELSE [file |-> save(consumer_id, content, file), raised |-> "none",
             trace |-> r.trace \o <<Event("save", consumer_id, content)>>]

upload_unregistered_proceeds(cert, content, put, file) ==
    LET consumer_id == lookup_consumer_id(cert)
    IN IF ~is_valid(consumer_id, content, file)
       THEN LET r == report_enabled(consumer_id, content, put)
            IN IF r.raised # "none"
               THEN [file |-> file, trace |-> r.trace, raised |-> r.raised]
               ELSE [file |-> save(consumer_id, content, file), raised |-> "none",
                     trace |-> r.trace \o <<Event("save", consumer_id, content)>>]
       ELSE [file |-> file, trace |-> <<>>, raised |-> "none"]

upload_enabled_repos_report(cert, content, put, file) ==
    LET consumer_id == lookup_consumer_id(cert)
    IN IF consumer_id = NoId
       THEN [file |-> file, raised |-> "none", trace |->
                error_message("Cannot upload enabled repos report, is this client registered?")]
       ELSE IF ~is_valid(consumer_id, content, file)
            THEN LET r == report_enabled(consumer_id, content, put)
                 IN IF r.raised # "none"
                    THEN [file |-> file, trace |-> r.trace, raised |-> r.raised]
                    ELSE [file |-> save(consumer_id, content, file), raised |-> "none",
                          trace |-> r.trace \o <<Event("save", consumer_id, content)>>]
            ELSE [file |-> file, trace |-> <<>>, raised |-> "none"]

----------------------------------------------------------------------------
(* dnf-plugins/enabled_repos_upload.py                                     *)

\* EnabledReport(path): the content dnf yields, or "DnfError" when dnf.Base raises.
GenResults == Contents \cup {<<"DnfError">>}
GenFailed(gen) == gen = <<"DnfError">>

\* The plugin's config file: whether it has a [main] section, and each option's
\* text: absent, a boolean, or a text getboolean rejects with ValueError.
OptionValues == {"absent", "true", "false", "invalid"}
Confs ==
    {[section |-> FALSE, enabled |-> "absent", supress_debug |-> "absent",
      supress_errors |-> "absent"]}
    \cup [section : {TRUE}, enabled : OptionValues, supress_debug : OptionValues,
          supress_errors : OptionValues]

has_option(cfg, opt) == cfg.section /\ cfg[opt] # "absent"
getboolean(cfg, opt) == cfg[opt] = "true"
getboolean_raises(cfg, opt) == cfg[opt] = "invalid"

Done(file, trace, raised) == [file |-> file, trace |-> trace, raised |-> raised]

\* UploadReposCommand.run
run_without_remove(forceupload, gen, cert, put, file) ==
    IF GenFailed(gen) THEN Done(file, <<>>, "DnfError")
    ELSE LET u == upload_enabled_repos_report(cert, gen, put, file)
         IN Done(u.file, u.trace, u.raised)

run(forceupload, gen, cert, put, file) ==
    LET removed == IF forceupload THEN remove_cache(file) ELSE file
        head == IF forceupload THEN <<Event("remove_cache", NoId, <<>>)>> ELSE <<>>
    IN IF GenFailed(gen) THEN Done(removed, head, "DnfError")
       ELSE LET u == upload_enabled_repos_report(cert, gen, put, removed)
            IN Done(u.file, head \o u.trace, u.raised)

\* EnabledReposUpload.transaction
transaction(cfg, gen, cert, put, file) ==
    IF cfg.section /\ has_option(cfg, "enabled") /\ getboolean_raises(cfg, "enabled")
    THEN Done(file, <<>>, "ValueError")
    ELSE IF ~(cfg.section /\ has_option(cfg, "enabled") /\ getboolean(cfg, "enabled"))
    THEN Done(file, <<>>, "none")
    ELSE IF has_option(cfg, "supress_debug") /\ getboolean_raises(cfg, "supress_debug")
    THEN Done(file, <<>>, "ValueError")
    ELSE
      LET info == IF has_option(cfg, "supress_debug") /\ ~getboolean(cfg, "supress_debug")
                  THEN <<Event("logger.info", NoId, <<>>)>> ELSE <<>>
          u == IF GenFailed(gen) THEN Done(file, <<>>, "DnfError")
               ELSE upload_enabled_repos_report(cert, gen, put, file)
          tried == info \o <<Event("EnabledReport", NoId, <<>>)>> \o u.trace
      IN IF u.raised = "none" THEN Done(u.file, tried, "none")
         ELSE IF has_option(cfg, "supress_errors")
                 /\ getboolean_raises(cfg, "supress_errors")
         THEN Done(u.file, tried, "ValueError")
         ELSE IF has_option(cfg, "supress_errors") /\ ~getboolean(cfg, "supress_errors")
         THEN Done(u.file, tried \o <<Event("logger.error", NoId, <<>>)>>, "none")
         ELSE Done(u.file, tried, "none")

----------------------------------------------------------------------------
(* The enabled-repos subsystem as state machines.                          *)

\* Texts the cache file can hold besides a saved entry: an empty or truncated
\* file, trailing data, a JSON list, an empty mapping, a two-entry mapping.
OtherTexts ==
    {<<>>, <<"{", "u1", ":">>, <<"{", "u1", ":", "[", "]", "}", "}">>,
     <<"[", "]">>, <<"{", "}">>,
     <<"{", "u1", ":", "[", "]", ",", "u2", ":", "[", "]", "}">>}
SavedTexts == {json_dumps(data(c, x)) : c \in ConsumerIds, x \in Contents}
CacheFiles == {NoFile} \cup {FileOf(t) : t \in SavedTexts \cup OtherTexts}

NoObs == [op |-> "none"]
NoConf == [section |-> FALSE, enabled |-> "absent", supress_debug |-> "absent",
           supress_errors |-> "absent"]

\* Whether an observation is an upload call of a registered client that returned.
NormalUpload(o) == o.op = "upload" /\ o.cert # NoId /\ o.raised = "none"

\* The observation of one upload_enabled_repos_report call, with what preceded it:
\* nothing at all and no cache file (first), or a normal call (its consumer and content).
\* It also carries the history of the calls so far: the consumer and content of
\* the last call that issued a PUT (issued), and of the last call that issued a
\* PUT and returned (returned); each is empty while there was no such call.
IssuedSoFar == IF last.op \in {"upload", "remove_cache"} THEN last.issued ELSE <<>>
ReturnedSoFar == IF last.op \in {"upload", "remove_cache"} THEN last.returned ELSE <<>>
IssuesPut(trace) == Count(trace, "PUT /systems/<id>/enabled_repos") > 0

Observe(op, cert, content, put, r) ==
    [op |-> op, cert |-> cert, content |-> content, put |-> put, before |-> cacheFile,
     trace |-> r.trace, raised |-> r.raised,
     first |-> (last.op = "none" /\ ~cacheFile.exists),
     preceding |-> IF NormalUpload(last)
                   THEN <<[cid |-> last.cert, content |-> last.content]>> ELSE <<>>,
     issued |-> IF IssuesPut(r.trace)
                THEN <<[cid |-> cert, content |-> content]>> ELSE IssuedSoFar,
     returned |-> IF IssuesPut(r.trace) /\ r.raised = "none"
                  THEN <<[cid |-> cert, content |-> content]>> ELSE ReturnedSoFar]

Others == <<hookCalls, acks, commit>>
InitOthers == hookCalls = 0 /\ acks = 0 /\ commit = TRUE

\* katello/repos.py on its own: the calls the yum and dnf plugins make.
InitRepos ==
    /\ cacheFile \in CacheFiles
    /\ conf = NoConf
    /\ last = NoObs
    /\ InitOthers

Upload ==
    \E cert \in Certs, content \in Contents, put \in PutResults :
        LET r == upload_enabled_repos_report(cert, content, put, cacheFile)
        IN /\ cacheFile' = r.file
           /\ last' = Observe("upload", cert, content, put, r)
           /\ UNCHANGED <<conf, Others>>

RemoveCache ==
    /\ cacheFile' = remove_cache(cacheFile)
    /\ last' = [op |-> "remove_cache", before |-> cacheFile, raised |-> "none",
                issued |-> IssuedSoFar, returned |-> ReturnedSoFar]
    /\ UNCHANGED <<conf, Others>>

CacheIsValid ==
    \E consumer_id \in ConsumerIds, content \in Contents :
        /\ last' = [op |-> "is_valid", cid |-> consumer_id, content |-> content,
                    before |-> cacheFile,
                    result |-> is_valid(consumer_id, content, cacheFile)]
        /\ UNCHANGED <<cacheFile, conf, Others>>

NextRepos == Upload \/ RemoveCache \/ CacheIsValid

SpecRepos == InitRepos /\ [][NextRepos]_vars

\* The cache file from its beginning: no file yet, then any sequence of
\* upload_enabled_repos_report and remove_cache calls.
InitCache ==
    /\ cacheFile = NoFile
    /\ conf = NoConf
    /\ last = NoObs
    /\ InitOthers

NextCache == Upload \/ RemoveCache

SpecCache == InitCache /\ [][NextCache]_vars

\* The dnf command katello-upload-enabled-repos.
CommandRun ==
    \E forceupload \in BOOLEAN, gen \in GenResults, cert \in Certs, put \in PutResults :
        LET r == run(forceupload, gen, cert, put, cacheFile)
        IN /\ cacheFile' = r.file
           /\ last' = [op |-> "run", forceupload |-> forceupload, cert |-> cert,
                       gen |-> gen, put |-> put, before |-> cacheFile,
                       trace |-> r.trace, raised |-> r.raised]
           /\ UNCHANGED <<conf, Others>>

NextCommand == CommandRun \/ RemoveCache

SpecCommand == InitRepos /\ [][NextCommand]_vars

\* The dnf plugin's post-transaction hook, under each config file.
InitHook ==
    /\ cacheFile \in CacheFiles
    /\ conf \in Confs
    /\ last = NoObs
    /\ InitOthers

Transaction ==
    \E gen \in GenResults, cert \in Certs, put \in PutResults :
        LET r == transaction(conf, gen, cert, put, cacheFile)
        IN /\ cacheFile' = r.file
           /\ last' = [op |-> "transaction", cert |-> cert, gen |-> gen, put |-> put,
                       before |-> cacheFile, trace |-> r.trace, raised |-> r.raised]
           /\ UNCHANGED <<conf, Others>>

NextHook == Transaction \/ RemoveCache

SpecHook == InitHook /\ [][NextHook]_vars

----------------------------------------------------------------------------
(* Properties of the enabled-repos upload and its cache.                   *)

PutEv == "PUT /systems/<id>/enabled_repos"
Puts(o) == Count(o.trace, PutEv)
Errors(o) == Count(o.trace, "error_message")

\* The cache file is present and its JSON text is the one-entry mapping {cid: content}.
CacheHolds(file, cid, content) ==
    /\ file.exists
    /\ json_loads(file.text).ok
    /\ json_loads(file.text).val.kind = "dict"
    /\ DOMAIN json_loads(file.text).val.val = {cid}
    /\ json_loads(file.text).val.val[cid] = content

\* The PUT failed with an exception report_enabled does not catch.
PutEscaped(o) == Puts(o) = 1 /\ o.put \notin CaughtByReportEnabled \cup {"ok"}

\* C1: for a registered client, upload_enabled_repos_report issues the PUT (for
\* this consumer and content) exactly when the cache file at the start of the call
\* is absent, unparseable or other than {consumer_id: content}; when the cache
\* file equals it, no PUT is issued and the file is left as it was.
C1_PutIffCacheStale ==
    (last.op = "upload" /\ last.cert # NoId) =>
        /\ Puts(last) \in {0, 1}
        /\ Puts(last) = 1 <=> ~CacheHolds(last.before, last.cert, last.content)
        /\ Puts(last) = 1 =>
              /\ last.trace[1].ev = PutEv
              /\ last.trace[1].cid = last.cert
              /\ last.trace[1].body = last.content
        /\ CacheHolds(last.before, last.cert, last.content) =>
              last.trace = <<>> /\ cacheFile = last.before

C1_Witness ==
    /\ last.op = "upload" /\ last.cert # NoId
    /\ last.before.exists /\ ~json_loads(last.before.text).ok
    /\ Puts(last) = 1

\* C2: in a sequence of normally returning calls of a registered client that
\* starts without a cache file, the first call issues a PUT, and a later call
\* issues one exactly when its (consumer id, content) differs from that of the
\* call immediately before it.
C2_UploadOnlyOnChange ==
    NormalUpload(last) =>
        /\ last.first => Puts(last) = 1
        /\ last.preceding # <<>> =>
              (Puts(last) = 1 <=>
                  last.preceding[1] # [cid |-> last.cert, content |-> last.content])

C2_Witness ==
    /\ NormalUpload(last)
    /\ last.preceding = <<[cid |-> last.cert, content |-> last.content]>>
    /\ Puts(last) = 0

\* C3: is_valid returns True exactly when the cache file exists and its JSON
\* content is {consumer_id: content}; it returns False, raising nothing, for an
\* absent file, for invalid JSON, for other content and for the same content
\* stored under another consumer id.
C3_IsValidExact ==
    last.op = "is_valid" =>
        /\ last.result \in BOOLEAN
        /\ last.result <=> CacheHolds(last.before, last.cid, last.content)
        /\ ~last.before.exists => ~last.result
        /\ (last.before.exists /\ ~json_loads(last.before.text).ok) => ~last.result
        /\ \A c \in ConsumerIds, x \in Contents :
              (last.before = FileOf(<<"{", c, ":">> \o DumpList(x) \o <<"}">>)
               /\ (c # last.cid \/ x # last.content)) => ~last.result

C3_Witness ==
    /\ last.op = "is_valid" /\ ~last.result
    /\ \E c \in ConsumerIds \ {last.cid} :
          last.before = FileOf(<<"{", c, ":">> \o DumpList(last.content) \o <<"}">>)

\* C4: a call of upload_enabled_repos_report issues at most one PUT whatever the
\* PUT's outcome: a failed PUT is not tried again.
C4_AtMostOnePut ==
    last.op = "upload" =>
        /\ Puts(last) <= 1
        /\ (last.cert # NoId /\ ~CacheHolds(last.before, last.cert, last.content)) =>
              Puts(last) = 1

C4_Witness ==
    last.op = "upload" /\ last.put = "RemoteServerException" /\ Puts(last) = 1

\* C5 as stated: whatever failure the PUT raises, report_enabled writes an error
\* message and upload_enabled_repos_report returns normally.
C5_AnyFailureLogged ==
    (last.op = "upload" /\ Puts(last) = 1 /\ last.put # "ok") =>
        last.raised = "none" /\ Errors(last) = 1

\* C5 amended: a PUT failing with RemoteServerException or GoneException is
\* caught and logged with one error message, and the call returns normally; any
\* other exception of the PUT leaves upload_enabled_repos_report unlogged, and
\* the cache file is then not written.
C5_ServerAndGoneLogged ==
    (last.op = "upload" /\ Puts(last) = 1 /\ last.put # "ok") =>
        /\ last.put \in CaughtByReportEnabled =>
              last.raised = "none" /\ Errors(last) = 1
        /\ last.put \notin CaughtByReportEnabled =>
              last.raised = last.put /\ Errors(last) = 0 /\ cacheFile = last.before

C5_Witness ==
    /\ last.op = "upload" /\ Puts(last) = 1 /\ last.put = "GoneException"
    /\ last.raised = "none" /\ Errors(last) = 1

\* C6: the post-transaction hook lets no failure of report generation or upload
\* out: under a config that enables it, the hook returns normally whenever
\* building the report or uploading it raised; under a config that does not
\* enable it, no report is built, no PUT is issued and the cache file is untouched.
ConfEnables == conf.section /\ conf.enabled = "true"
TryBlockRaised(o) ==
    Count(o.trace, "EnabledReport") = 1 /\ (GenFailed(o.gen) \/ PutEscaped(o))

C6_HookSwallowsFailures ==
    last.op = "transaction" =>
        /\ (ConfEnables /\ TryBlockRaised(last)) => last.raised = "none"
        /\ (~conf.section \/ conf.enabled \in {"absent", "false"}) =>
              last.trace = <<>> /\ cacheFile = last.before /\ last.raised = "none"

\* C6 holds of every config whose supress_errors option, when present, is a
\* boolean: the one way out of the hook is getboolean's ValueError in the handler.
C6_SwallowsUnderValidOptions ==
    (last.op = "transaction" /\ ConfEnables /\ TryBlockRaised(last)
     /\ conf.supress_errors # "invalid") => last.raised = "none"

\* C8: for a registered client whose report was built, run with --forceupload
\* issues the PUT whatever the cache file held, the file being removed before
\* the comparison; without --forceupload it uploads only when the cache is not valid.
C8_ForceUploads ==
    (last.op = "run" /\ last.cert # NoId /\ ~GenFailed(last.gen)) =>
        /\ last.forceupload =>
              /\ Puts(last) = 1
              /\ last.trace[1].ev = "remove_cache" /\ last.trace[2].ev = PutEv
        /\ ~last.forceupload =>
              (Puts(last) = 1 <=> ~CacheHolds(last.before, last.cert, last.gen))

C8_Witness ==
    /\ last.op = "run" /\ last.cert # NoId /\ ~GenFailed(last.gen)
    /\ last.forceupload
    /\ CacheHolds(last.before, last.cert, last.gen)
    /\ Puts(last) = 1

----------------------------------------------------------------------------
(* zypper_plugins/tracer_upload.py                                         *)

\* What the network does to the one request: a missing server option in
\* rhsm.conf, a failing or interrupted conn.request, a failing conn.getresponse,
\* or a response with some HTTP status (which the code does not look at).
NetOutcomes == {"NoOptionError", "socket.error", "KeyboardInterrupt", "BadStatusLine",
                "200", "404", "410", "500"}
NetRaises == {"NoOptionError", "socket.error", "KeyboardInterrupt", "BadStatusLine"}

\* TracerUploadPlugin.collect_data
collect_data(rebootNeeded) == IF rebootNeeded THEN <<"kernel">> ELSE <<>>

\* TracerUploadPlugin.upload_tracer_profile
upload_tracer_profile(rebootNeeded, cert, net) ==
    LET body == collect_data(rebootNeeded)
        request == Event("PUT /rhsm/consumers/<id>/tracer", cert, body)
    IN IF net = "NoOptionError" THEN [trace |-> <<>>, raised |-> net]
       ELSE IF cert = NoId THEN [trace |-> <<>>, raised |-> "IOError"]
       ELSE IF net \in {"socket.error", "KeyboardInterrupt"}
            THEN [trace |-> <<request>>, raised |-> net]
       ELSE IF net = "BadStatusLine"
            THEN [trace |-> <<request, Event("getresponse", cert, <<>>)>>, raised |-> net]
       ELSE [trace |-> <<request, Event("getresponse", cert, <<net>>)>>, raised |-> "none"]

\* TracerUploadPlugin.PLUGINEND
PLUGINEND_ack_on_success(rebootNeeded, cert, net) ==
    LET u == upload_tracer_profile(rebootNeeded, cert, net)
        head == <<Event("logging.info", NoId, <<"PLUGINEND">>),
                  Event("logging.info", NoId, <<"Uploading Tracer Profile">>),
                  Event("upload_tracer_profile", NoId, <<>>)>> \o u.trace
    IN IF u.raised = "none"
       THEN [trace |-> head \o <<Event("ack", NoId, <<>>)>>, raised |-> "none",
             uploadRaised |-> u.raised]
       ELSE [trace |-> head \o <<Event("logging.error", NoId,
                                       <<"Unable to upload Tracer Profile">>)>>,
             raised |-> "none", uploadRaised |-> u.raised]

PLUGINEND(rebootNeeded, cert, net) ==
    LET u == upload_tracer_profile(rebootNeeded, cert, net)
        head == <<Event("logging.info", NoId, <<"PLUGINEND">>),
                  Event("logging.info", NoId, <<"Uploading Tracer Profile">>),
                  Event("upload_tracer_profile", NoId, <<>>)>> \o u.trace
        caught == IF u.raised = "none" THEN <<>>
                  ELSE <<Event("logging.error", NoId, <<"Unable to upload Tracer Profile">>)>>
    IN [trace |-> head \o caught \o <<Event("ack", NoId, <<>>)>>, raised |-> "none",
        uploadRaised |-> u.raised]

InitTracer ==
    /\ cacheFile = NoFile
    /\ conf = NoConf
    /\ last = NoObs
    /\ InitOthers

PluginEnd ==
    \E rebootNeeded \in BOOLEAN, cert \in Certs, net \in NetOutcomes :
        LET r == PLUGINEND(rebootNeeded, cert, net)
        IN /\ hookCalls < MaxCalls
           /\ hookCalls' = hookCalls + 1
           /\ acks' = acks + Count(r.trace, "ack")
           /\ last' = [op |-> "PLUGINEND", rebootNeeded |-> rebootNeeded, cert |-> cert,
                       net |-> net, trace |-> r.trace, raised |-> r.raised,
                       uploadRaised |-> r.uploadRaised]
           /\ UNCHANGED <<cacheFile, conf, commit>>

NextTracer == PluginEnd

SpecTracer == InitTracer /\ [][NextTracer]_vars

\* C7: every PLUGINEND invocation is answered by exactly one ack(), sent last,
\* after the single upload attempt, whether the upload succeeded or raised; the
\* exception does not leave the hook and the upload is not tried again.
C7_AlwaysAcks ==
    /\ acks = hookCalls
    /\ last.op = "PLUGINEND" =>
          /\ last.raised = "none"
          /\ Count(last.trace, "ack") = 1
          /\ last.trace[Len(last.trace)].ev = "ack"
          /\ Count(last.trace, "upload_tracer_profile") = 1
          /\ Count(last.trace, "PUT /rhsm/consumers/<id>/tracer") <= 1
          /\ last.uploadRaised # "none" <=> Count(last.trace, "logging.error") = 1

C7_Witness ==
    /\ last.op = "PLUGINEND" /\ last.uploadRaised = "socket.error"
    /\ hookCalls = MaxCalls /\ acks = MaxCalls

----------------------------------------------------------------------------
(* katello/agent/pulp/libdnf.py and libyum.py: transaction reports        *)

None == "None"

\* TransactionReport = namedtuple(...): a tuple with the fields in this order.
TransactionReport(resolved, deps, failed) == <<resolved, deps, failed>>
\* namedtuple._asdict
asdict(report) == [resolved |-> report[1], deps |-> report[2], failed |-> report[3]]

\* The items of a DNF transaction: an install, an erase, an upgrade (both
\* packages set) and an item with neither package.
DnfItems ==
    {[installed |-> "p2", erased |-> None], [installed |-> None, erased |-> "p1"],
     [installed |-> "p2", erased |-> "p1"], [installed |-> None, erased |-> None]}

\* Python's  a or b  on package objects: None is the only false one.
PyOr(a, b) == IF a # None THEN a ELSE b

\* libdnf API.transaction_report: the report, or the AttributeError that reading
\* po.repoid raises when po is None.
RECURSIVE dnf_report_from(_, _, _, _)
dnf_report_from(tx, i, resolved, failed) ==
    IF i > Len(tx)
    THEN [raised |-> "none", report |-> TransactionReport(resolved, <<>>, failed)]
    ELSE LET po == PyOr(tx[i].installed, tx[i].erased)
         IN IF po = None
            THEN [raised |-> "AttributeError", report |-> <<>>]
            ELSE dnf_report_from(tx, i + 1,
                                 Append(resolved, [qname |-> po, name |-> po]), failed)

dnf_transaction_report(tx) == dnf_report_from(tx, 1, <<>>, <<>>)

\* yum.constants: the output states of a transaction member.
TS_INSTALL == "TS_INSTALL"
TS_TRUEINSTALL == "TS_TRUEINSTALL"
TS_UPDATE == "TS_UPDATE"
TS_ERASE == "TS_ERASE"
TS_FAILED == "TS_FAILED"

YumMembers == [po : {"p1"}, output_state : {TS_INSTALL, TS_ERASE, TS_FAILED},
               isDep : BOOLEAN]

\* libyum API.transaction_report
RECURSIVE yum_report_from(_, _, _, _, _, _)
yum_report_from(ts_info, states, i, resolved, deps, failed) ==
    IF i > Len(ts_info) THEN TransactionReport(resolved, deps, failed)
    ELSE LET t == ts_info[i]
             package == [qname |-> t.po, name |-> t.po, index |-> i]
         IN IF t.output_state \notin states
            THEN yum_report_from(ts_info, states, i + 1, resolved, deps, failed)
            ELSE yum_report_from(ts_info, states, i + 1,
                    IF t.isDep THEN resolved ELSE Append(resolved, package),
                    IF t.isDep THEN Append(deps, package) ELSE deps,
                    IF t.output_state = TS_FAILED THEN Append(failed, package) ELSE failed)

yum_transaction_report(ts_info, states) == yum_report_from(ts_info, states, 1, <<>>, <<>>, <<>>)

\* libyum API.installed, API.updated, API.erased
installed(ts_info) ==
    yum_transaction_report(ts_info, {TS_FAILED, TS_INSTALL, TS_TRUEINSTALL, TS_UPDATE})
updated(ts_info) ==
    yum_transaction_report(ts_info, {TS_FAILED, TS_INSTALL, TS_TRUEINSTALL, TS_UPDATE})
erased(ts_info) == yum_transaction_report(ts_info, {TS_FAILED, TS_ERASE})

\* libyum API.affected
affected(report) == [i \in 1..Len(report[1] \o report[2]) |-> (report[1] \o report[2])[i].qname]

DnfTransactions == SeqsUpTo(DnfItems, MaxItems)
YumTransactions == SeqsUpTo(YumMembers, MaxItems)

InitReport ==
    /\ cacheFile = NoFile
    /\ conf = NoConf
    /\ last = NoObs
    /\ InitOthers

DnfTransactionReport ==
    \E tx \in DnfTransactions :
        LET r == dnf_transaction_report(tx)
        IN /\ last' = [op |-> "dnf.transaction_report", tx |-> tx,
                       raised |-> r.raised, report |-> r.report]
           /\ UNCHANGED <<cacheFile, conf, Others>>

YumTransactionReport ==
    \E ts_info \in YumTransactions, which \in {"installed", "updated", "erased"} :
        /\ last' = [op |-> "yum.transaction_report", ts_info |-> ts_info, which |-> which,
                    raised |-> "none",
                    report |-> CASE which = "installed" -> installed(ts_info)
                                 [] which = "updated" -> updated(ts_info)
                                 [] OTHER -> erased(ts_info)]
        /\ UNCHANGED <<cacheFile, conf, Others>>

NextReport == DnfTransactionReport \/ YumTransactionReport

SpecReport == InitReport /\ [][NextReport]_vars

\* C10: libdnf transaction_report returns a report for every transaction: each
\* item is in exactly one list, in resolved when it has an installed or erased
\* package and in failed when it has neither; deps is empty; resolved and failed
\* together have as many entries as the transaction has items.
HasPackage(item) == item.installed # None \/ item.erased # None

C10_EveryItemReported ==
    last.op = "dnf.transaction_report" =>
        /\ last.raised = "none"
        /\ Len(last.report) = 3
        /\ last.report[2] = <<>>
        /\ Len(last.report[1]) + Len(last.report[3]) = Len(last.tx)
        /\ Len(last.report[1]) =
              Len(SelectSeq(last.tx, LAMBDA item : HasPackage(item)))
        /\ Len(last.report[3]) =
              Len(SelectSeq(last.tx, LAMBDA item : ~HasPackage(item)))

----------------------------------------------------------------------------
(* katello/agent/pulp/libdnf.py and libyum.py: the package operations      *)

\* What the package manager does under one operation: nothing wrong, an error
\* while marking, resolving or downloading (lib), or one while executing (tx).
Faults == {"none", "lib", "tx"}

Outcome(trace, raised, result) == [trace |-> trace, raised |-> raised, result |-> result]

\* The shared tail of the libdnf operations: commit, report, _asdict.
DnfFinish(trace, commitFlag, tx, fault) ==
    LET ran == IF commitFlag THEN trace \o <<"do_transaction">> ELSE trace
        r == dnf_transaction_report(tx)
    IN IF commitFlag /\ fault = "tx" THEN Outcome(ran, "Error", <<>>)
       ELSE IF r.raised # "none"
            THEN Outcome(ran \o <<"transaction_report">>, r.raised, <<>>)
            ELSE Outcome(ran \o <<"transaction_report">>, "none", asdict(r.report))

\* libdnf Package.install
dnf_Package_install_always_commits(commitFlag, tx, fault) ==
    IF fault = "lib" THEN Outcome(<<"lib.install">>, "Error", <<>>)
    ELSE DnfFinish(<<"lib.install">>, TRUE, tx, fault)

dnf_Package_install(commitFlag, tx, fault) ==
    IF fault = "lib" THEN Outcome(<<"lib.install">>, "Error", <<>>)
    ELSE DnfFinish(<<"lib.install">>, commitFlag, tx, fault)

\* libdnf Package.update: with advisories and no pattern to upgrade, lib.upgrade
\* is not called and lib.transaction stays None.
dnf_Package_update(commitFlag, advisories, anyPattern, tx, fault) ==
    IF advisories /\ ~anyPattern THEN DnfFinish(<<>>, commitFlag, <<>>, fault)
    ELSE IF fault = "lib" THEN Outcome(<<"lib.upgrade">>, "Error", <<>>)
    ELSE DnfFinish(<<"lib.upgrade">>, commitFlag, tx, fault)

\* libdnf Package.uninstall
dnf_Package_uninstall(commitFlag, tx, fault) ==
    IF fault = "lib" THEN Outcome(<<"lib.remove">>, "Error", <<>>)
    ELSE DnfFinish(<<"lib.remove">>, commitFlag, tx, fault)

\* libdnf PackageGroup.install
dnf_PackageGroup_install(commitFlag, tx, fault) ==
    IF fault = "lib" THEN Outcome(<<"lib.group_install">>, "CompsError", <<>>)
    ELSE DnfFinish(<<"lib.group_install">>, commitFlag, tx, fault)

\* libdnf PackageGroup.uninstall
dnf_PackageGroup_uninstall(commitFlag, tx, fault) ==
    IF fault = "lib" THEN Outcome(<<"lib.group_remove">>, "CompsError", <<>>)
    ELSE DnfFinish(<<"lib.group_remove">>, commitFlag, tx, fault)

\* The shared tail of the libyum operations: resolveDeps, commit when the
\* transaction set is not empty, report, log the affected packages, _asdict.
YumFinish(trace, commitFlag, ts_info, fault, report) ==
    LET executes == commitFlag /\ Len(ts_info) > 0
        ran == trace \o <<"resolveDeps">>
                     \o (IF executes THEN <<"processTransaction">> ELSE <<>>)
        logged == IF commitFlag
                  THEN [i \in 1..Len(affected(report)) |-> "log.info"] ELSE <<>>
    IN IF executes /\ fault = "tx" THEN Outcome(ran, "YumBaseError", <<>>)
       ELSE Outcome(ran \o <<"transaction_report">> \o logged, "none", asdict(report))

\* libyum Package.install
yum_Package_install(commitFlag, ts_info, fault) ==
    IF fault = "lib" THEN Outcome(<<"lib.install">>, "InstallError", <<>>)
    ELSE YumFinish(<<"lib.install">>, commitFlag, ts_info, fault, installed(ts_info))

\* libyum Package.update
yum_Package_update(commitFlag, ts_info, fault) ==
    IF fault = "lib" THEN Outcome(<<"lib.update">>, "YumBaseError", <<>>)
    ELSE YumFinish(<<"lib.update">>, commitFlag, ts_info, fault, updated(ts_info))

\* libyum Package.uninstall
yum_Package_uninstall(commitFlag, ts_info, fault) ==
    IF fault = "lib" THEN Outcome(<<"lib.remove">>, "YumBaseError", <<>>)
    ELSE YumFinish(<<"lib.remove">>, commitFlag, ts_info, fault, erased(ts_info))

\* libyum PackageGroup.install
yum_PackageGroup_install(commitFlag, ts_info, fault) ==
    IF fault = "lib" THEN Outcome(<<"lib.selectGroup">>, "GroupsError", <<>>)
    ELSE YumFinish(<<"lib.selectGroup">>, commitFlag, ts_info, fault, installed(ts_info))

\* libyum PackageGroup.uninstall
yum_PackageGroup_uninstall(commitFlag, ts_info, fault) ==
    IF fault = "lib" THEN Outcome(<<"lib.groupRemove">>, "GroupsError", <<>>)
    ELSE YumFinish(<<"lib.groupRemove">>, commitFlag, ts_info, fault, erased(ts_info))

DnfResolved == SeqsUpTo(DnfItems, MaxTx)
YumResolved == SeqsUpTo(YumMembers, MaxTx)

InitPkg ==
    /\ cacheFile = NoFile
    /\ conf = NoConf
    /\ last = NoObs
    /\ InitOthers

PkgObs(lib, op, tx, fault, r) ==
    [op |-> op, lib |-> lib, commit |-> commit, tx |-> tx, fault |-> fault,
     trace |-> r.trace, raised |-> r.raised, result |-> r.result]

PkgFrame == UNCHANGED <<cacheFile, conf, hookCalls, acks, commit>>

\* API.__init__(commit): a new API object replaces the one in use.
ApiInit ==
    /\ commit' \in BOOLEAN
    /\ last' = [op |-> "API.__init__"]
    /\ UNCHANGED <<cacheFile, conf, hookCalls, acks>>

DnfPackageInstall ==
    \E tx \in DnfResolved, fault \in Faults :
        /\ last' = PkgObs("dnf", "Package.install", tx, fault,
                          dnf_Package_install(commit, tx, fault))
        /\ PkgFrame

DnfPackageUpdate ==
    \E tx \in DnfResolved, fault \in Faults, advisories \in BOOLEAN, anyPattern \in BOOLEAN :
        /\ last' = PkgObs("dnf", "Package.update",
                          IF advisories /\ ~anyPattern THEN <<>> ELSE tx, fault,
                          dnf_Package_update(commit, advisories, anyPattern, tx, fault))
        /\ PkgFrame

DnfPackageUninstall ==
    \E tx \in DnfResolved, fault \in Faults :
        /\ last' = PkgObs("dnf", "Package.uninstall", tx, fault,
                          dnf_Package_uninstall(commit, tx, fault))
        /\ PkgFrame

DnfGroupInstall ==
    \E tx \in DnfResolved, fault \in Faults :
        /\ last' = PkgObs("dnf", "PackageGroup.install", tx, fault,
                          dnf_PackageGroup_install(commit, tx, fault))
        /\ PkgFrame

DnfGroupUninstall ==
    \E tx \in DnfResolved, fault \in Faults :
        /\ last' = PkgObs("dnf", "PackageGroup.uninstall", tx, fault,
                          dnf_PackageGroup_uninstall(commit, tx, fault))
        /\ PkgFrame

YumPackageInstall ==
    \E ts_info \in YumResolved, fault \in Faults :
        /\ last' = PkgObs("yum", "Package.install", ts_info, fault,
                          yum_Package_install(commit, ts_info, fault))
        /\ PkgFrame

YumPackageUpdate ==
    \E ts_info \in YumResolved, fault \in Faults :
        /\ last' = PkgObs("yum", "Package.update", ts_info, fault,
                          yum_Package_update(commit, ts_info, fault))
        /\ PkgFrame

YumPackageUninstall ==
    \E ts_info \in YumResolved, fault \in Faults :
        /\ last' = PkgObs("yum", "Package.uninstall", ts_info, fault,
                          yum_Package_uninstall(commit, ts_info, fault))
        /\ PkgFrame

YumGroupInstall ==
    \E ts_info \in YumResolved, fault \in Faults :
        /\ last' = PkgObs("yum", "PackageGroup.install", ts_info, fault,
                          yum_PackageGroup_install(commit, ts_info, fault))
        /\ PkgFrame

YumGroupUninstall ==
    \E ts_info \in YumResolved, fault \in Faults :
        /\ last' = PkgObs("yum", "PackageGroup.uninstall", ts_info, fault,
                          yum_PackageGroup_uninstall(commit, ts_info, fault))
        /\ PkgFrame

NextPkg ==
    \/ ApiInit
    \/ DnfPackageInstall \/ DnfPackageUpdate \/ DnfPackageUninstall
    \/ DnfGroupInstall \/ DnfGroupUninstall
    \/ YumPackageInstall \/ YumPackageUpdate \/ YumPackageUninstall
    \/ YumGroupInstall \/ YumGroupUninstall

SpecPkg == InitPkg /\ [][NextPkg]_vars

\* C9: with commit=False no package or group operation of libdnf or libyum
\* executes the transaction, and an operation that returns still returns a dict
\* with the keys resolved, deps and failed, built by one transaction_report;
\* with commit=True an operation that returns has executed the transaction,
\* once, before the report is built (libyum: only when the transaction set is
\* not empty).
CountOf(trace, step) == Len(SelectSeq(trace, LAMBDA e : e = step))
Executions(o) == CountOf(o.trace, "do_transaction") + CountOf(o.trace, "processTransaction")
IndexOf(trace, step) == CHOOSE i \in 1..Len(trace) : trace[i] = step

C9_DryRunNeverExecutes ==
    last.op \in {"Package.install", "Package.update", "Package.uninstall",
                 "PackageGroup.install", "PackageGroup.uninstall"} =>
        /\ ~last.commit => Executions(last) = 0
        /\ last.raised = "none" =>
              /\ DOMAIN last.result = {"resolved", "deps", "failed"}
              /\ CountOf(last.trace, "transaction_report") = 1
        /\ (last.commit /\ last.raised = "none") =>
              /\ Executions(last) = IF last.lib = "yum" /\ Len(last.tx) = 0 THEN 0 ELSE 1
              /\ last.lib = "dnf" =>
                    IndexOf(last.trace, "do_transaction")
                        < IndexOf(last.trace, "transaction_report")
              /\ (last.lib = "yum" /\ Len(last.tx) > 0) =>
                    IndexOf(last.trace, "processTransaction")
                        < IndexOf(last.trace, "transaction_report")

C9_Witness ==
    /\ last.op = "Package.install" /\ last.lib = "dnf" /\ ~last.commit
    /\ Len(last.tx) > 0 /\ last.raised = "none"
    /\ Len(last.result.resolved) = Len(last.tx)
    /\ Executions(last) = 0

\* C11: libyum transaction_report puts every member whose output_state is in
\* states into exactly one bucket, failed when its output_state is TS_FAILED,
\* otherwise deps when it is a dependency, otherwise resolved; a member whose
\* output_state is not in states is in no bucket; the buckets are pairwise disjoint.
StatesOf(which) ==
    IF which = "erased" THEN {TS_FAILED, TS_ERASE}
    ELSE {TS_FAILED, TS_INSTALL, TS_TRUEINSTALL, TS_UPDATE}
InBucket(bucket, i) == \E k \in 1..Len(bucket) : bucket[k].index = i
BucketsOf(report, i) == {b \in 1..3 : InBucket(report[b], i)}
BucketFor(t) == IF t.output_state = TS_FAILED THEN 3 ELSE IF t.isDep THEN 2 ELSE 1

C11_ExactlyOneBucket ==
    last.op = "yum.transaction_report" =>
        \A i \in 1..Len(last.ts_info) :
            BucketsOf(last.report, i) =
                IF last.ts_info[i].output_state \in StatesOf(last.which)
                THEN {BucketFor(last.ts_info[i])} ELSE {}

\* ---------------------------------------------------------------------------
\* katello/tracer.py: the applications that need restarting.
MaxApps == 2

\* What queryfunc(plugin) yields: applications with a name, a helper and a type.
AppNames == {"yum", "dnf", "httpd"}
Apps == [name : AppNames, helper : {"h1", "h2"}, type : {"daemon", "static"}]
Yields == SeqsUpTo(Apps, MaxApps)

\* A Python dict with string keys: {}, d[k] = v and d.pop(k, None).
EmptyDict == [k \in {} |-> {}]
DictSet(d, key, value) ==
    [k \in DOMAIN d \cup {key} |-> IF k = key THEN value ELSE d[k]]
DictPop(d, key) == [k \in DOMAIN d \ {key} |-> d[k]]

RECURSIVE apps_from(_, _, _)
apps_from(yielded, i, apps) ==
    IF i > Len(yielded) THEN apps
    ELSE apps_from(yielded, i + 1,
                   DictSet(apps, yielded[i].name,
                           [helper |-> yielded[i].helper, type |-> yielded[i].type]))

RECURSIVE apps_first_from(_, _, _)
apps_first_from(yielded, i, apps) ==
    IF i > Len(yielded) THEN apps
    ELSE apps_first_from(yielded, i + 1,
                         IF yielded[i].name \in DOMAIN apps THEN apps
                         ELSE DictSet(apps, yielded[i].name,
                                      [helper |-> yielded[i].helper,
                                       type |-> yielded[i].type]))

get_apps_first_wins(yielded, plugin) ==
    LET apps == apps_first_from(yielded, 1, EmptyDict)
    IN IF plugin THEN DictPop(DictPop(apps, "yum"), "dnf") ELSE apps

\* tracer.get_apps; yielded is what queryfunc(plugin) yields.
get_apps(yielded, plugin) ==
    LET apps == apps_from(yielded, 1, EmptyDict)
    IN IF plugin THEN DictPop(DictPop(apps, "yum"), "dnf") ELSE apps

InitApps ==
    /\ cacheFile = NoFile
    /\ conf = NoConf
    /\ last = NoObs
    /\ InitOthers

GetApps ==
    \E yielded \in Yields, plugin \in BOOLEAN :
        /\ last' = [op |-> "get_apps", yielded |-> yielded, plugin |-> plugin,
                    result |-> get_apps(yielded, plugin)]
        /\ UNCHANGED <<cacheFile, conf, Others>>

NextApps == GetApps

SpecApps == InitApps /\ [][NextApps]_vars

\* C12: get_apps returns one entry per distinct application name yielded, the
\* helper and type of the last application yielded for that name; called with a
\* truthy plugin the result has no "yum" and no "dnf" key, called with a falsy
\* plugin these keys are kept when yielded.
YieldedNames(yielded) == {yielded[i].name : i \in 1..Len(yielded)}
LastYielded(yielded, name) ==
    LET i == CHOOSE j \in 1..Len(yielded) :
                 /\ yielded[j].name = name
                 /\ \A k \in (j + 1)..Len(yielded) : yielded[k].name # name
    IN [helper |-> yielded[i].helper, type |-> yielded[i].type]

C13_UnregisteredTouchesNothing ==
    (last.op = "upload" /\ lookup_consumer_id(last.cert) = NoId) =>
        /\ Puts(last) = 0
        /\ Count(last.trace, "save") = 0
        /\ cacheFile = last.before
        /\ Errors(last) = 1
        /\ Len(last.trace) = 1
        /\ last.raised = "none"

C13_Witness ==
    /\ last.op = "upload" /\ last.cert = NoId
    /\ last.before.exists /\ cacheFile = last.before
    /\ ~is_valid("u1", last.content, last.before)
    /\ Errors(last) = 1

\* The cache file is a JSON mapping with exactly one key, the consumer and
\* content of the given entry.
OneEntry(file, entry) ==
    /\ file.exists /\ Len(entry) = 1
    /\ LET parsed == json_loads(file.text)
       IN /\ parsed.ok /\ parsed.val.kind = "dict"
          /\ DOMAIN parsed.val.val = {entry[1].cid}
          /\ PyEq(parsed.val, data(entry[1].cid, entry[1].content))

\* C15 as stated: after any sequence of upload_enabled_repos_report and
\* remove_cache calls the cache file is absent or a mapping with exactly one
\* key, the consumer id of the last call that issued a PUT, mapped to that
\* call's content; remove_cache leaves no file and does not raise.
C15_LastPutIsCached ==
    last.op \in {"upload", "remove_cache"} =>
        /\ cacheFile.exists => OneEntry(cacheFile, last.issued)
        /\ last.op = "remove_cache" => (~cacheFile.exists /\ last.raised = "none")

\* C15, amended: after any sequence of upload_enabled_repos_report and
\* remove_cache calls that starts without a cache file, the cache file is absent
\* or a mapping with exactly one key, the consumer id of the last call that
\* issued a PUT and returned normally, mapped to that call's content; a save
\* replaces the previous entry entirely; remove_cache leaves no file and, on an
\* absent file, changes nothing and does not raise.
C15_SingleEntry ==
    last.op \in {"upload", "remove_cache"} =>
        /\ cacheFile.exists => OneEntry(cacheFile, last.returned)
        /\ (last.op = "upload" /\ Count(last.trace, "save") = 1) =>
              cacheFile = FileOf(json_dumps(data(last.cert, last.content)))
        /\ (last.op = "upload" /\ Count(last.trace, "save") = 0) =>
              cacheFile = last.before
        /\ last.op = "remove_cache" =>
              /\ ~cacheFile.exists /\ last.raised = "none"
              /\ ~last.before.exists => cacheFile = last.before

\* A save over the entry of another consumer: only the new entry is left.
C15_Witness ==
    /\ last.op = "upload" /\ last.before.exists
    /\ Count(last.trace, "save") = 1
    /\ ~OneEntry(last.before, <<[cid |-> last.cert, content |-> last.content]>>)
    /\ DOMAIN json_loads(last.before.text).val.val # {last.cert}
    /\ OneEntry(cacheFile, last.returned)
    /\ last.returned = <<[cid |-> last.cert, content |-> last.content]>>

\* ---------------------------------------------------------------------------
\* katello/utils.py: whether a plugin is enabled.

\* Python's int() on the text of an option: its value, or ValueError.
Digits == <<"0", "1", "2", "3", "4", "5", "6", "7", "8", "9">>
IsDigit(c) == \E d \in 1..Len(Digits) : Digits[d] = c
DigitValue(c) == (CHOOSE d \in 1..Len(Digits) : Digits[d] = c) - 1
RECURSIVE int_from(_, _, _)
int_from(text, i, value) ==
    IF i > Len(text) THEN [raised |-> "none", value |-> value]
    ELSE IF ~IsDigit(text[i]) THEN [raised |-> "ValueError", value |-> 0]
    ELSE int_from(text, i + 1, value * Len(Digits) + DigitValue(text[i]))
int(text) ==
    IF Len(text) = 0 THEN [raised |-> "ValueError", value |-> 0] ELSE int_from(text, 1, 0)

\* The plugin's config file: missing, not an ini file, without [main], without
\* main.enabled, or with the text of main.enabled.
EnabledTexts ==
    {<<"1">>, <<"0">>, <<"0", "1">>, <<"1", "0">>, <<"1", ".", "0">>, <<"y", "e", "s">>, <<>>}
ConfigFiles ==
    {[kind |-> k, enabled |-> <<>>] :
        k \in {"missing", "unparseable", "nosection", "nooption"}}
    \cup {[kind |-> "value", enabled |-> t] : t \in EnabledTexts}

\* ConfigParser.read then getint('main', 'enabled'): read skips a missing file.
getint(filepath) ==
    CASE filepath.kind = "unparseable" -> [raised |-> "MissingSectionHeaderError", value |-> 0]
      [] filepath.kind \in {"missing", "nosection"} -> [raised |-> "NoSectionError", value |-> 0]
      [] filepath.kind = "nooption" -> [raised |-> "NoOptionError", value |-> 0]
      [] OTHER -> int(filepath.enabled)

\* utils.config_enabled: the bare except turns every exception into False.
config_enabled(filepath) ==
    LET r == getint(filepath)
    IN IF r.raised # "none" THEN FALSE ELSE r.value = 1

\* os.environ as far as the disabling variable goes: unset, set to '', set to '1'.
Environs == {[set |-> FALSE, value |-> ""], [set |-> TRUE, value |-> ""],
             [set |-> TRUE, value |-> "1"]}
Variables == {None, "DISABLE_PLUGIN"}

environment_disabled_when_set(variable, environ) == variable # None /\ environ.set

\* utils.environment_disabled
environment_disabled(variable, environ) ==
    variable # None /\ environ.set /\ environ.value # ""

\* rhsm.conf and the host: cfg.get('rhsm', 'package_profile_on_trans') (a value,
\* or NoOptionError), IS_YUM, and whether the import in
\* has_subman_yum_package_plugin succeeds.
Rhsms == [package_profile_on_trans : {"1", "0", "NoOptionError"},
          IS_YUM : BOOLEAN, importable : BOOLEAN]

\* utils.has_subman_yum_package_plugin
has_subman_yum_package_plugin(rhsm) == rhsm.importable

\* utils.subman_profile_enabled
subman_profile_enabled(rhsm) ==
    IF rhsm.package_profile_on_trans = "NoOptionError" THEN FALSE
    ELSE LET enabled == rhsm.package_profile_on_trans = "1"
         IN IF enabled /\ rhsm.IS_YUM THEN has_subman_yum_package_plugin(rhsm)
            ELSE enabled

\* utils.plugin_enabled: the value, and the checks evaluated on the way
\* (or and and stop at the first operand that decides).
plugin_enabled(filepath, environment_variable, force, environ, rhsm) ==
    IF force THEN [value |-> TRUE, calls |-> <<>>]
    ELSE IF ~config_enabled(filepath)
    THEN [value |-> FALSE, calls |-> <<"config_enabled">>]
    ELSE IF environment_disabled(environment_variable, environ)
    THEN [value |-> FALSE, calls |-> <<"config_enabled", "environment_disabled">>]
    ELSE [value |-> ~subman_profile_enabled(rhsm),
          calls |-> <<"config_enabled", "environment_disabled", "subman_profile_enabled">>]

InitUtils ==
    /\ cacheFile = NoFile
    /\ conf = NoConf
    /\ last = NoObs
    /\ InitOthers

PluginEnabled ==
    \E filepath \in ConfigFiles, variable \in Variables, force \in BOOLEAN,
       environ \in Environs, rhsm \in Rhsms :
        LET r == plugin_enabled(filepath, variable, force, environ, rhsm)
        IN /\ last' = [op |-> "plugin_enabled", filepath |-> filepath,
                       variable |-> variable, force |-> force, environ |-> environ,
                       rhsm |-> rhsm, value |-> r.value, calls |-> r.calls]
           /\ UNCHANGED <<cacheFile, conf, Others>>

ConfigEnabled ==
    \E filepath \in ConfigFiles :
        /\ last' = [op |-> "config_enabled", filepath |-> filepath,
                    raised |-> "none", value |-> config_enabled(filepath)]
        /\ UNCHANGED <<cacheFile, conf, Others>>

NextUtils == PluginEnabled \/ ConfigEnabled

SpecUtils == InitUtils /\ [][NextUtils]_vars

\* C14: plugin_enabled is True exactly when force is true, or when the config
\* file has main.enabled equal to the integer 1, the named environment variable
\* is not set to a non-empty value (a None name never disables) and
\* subscription-manager's package profile reporting on transactions is not
\* active; config_enabled returns False, raising nothing, for a missing file,
\* section or option and for a value that is not an integer; force=True gives
\* True whatever the rest.
IsIntegerOne(text) ==
    /\ Len(text) > 0 /\ text[Len(text)] = "1"
    /\ \A i \in 1..(Len(text) - 1) : text[i] = "0"
EnabledIsOne(filepath) == filepath.kind = "value" /\ IsIntegerOne(filepath.enabled)
DisabledByEnvironment(variable, environ) ==
    variable # None /\ environ.set /\ Len(environ.value) > 0
SubmanReports(rhsm) ==
    /\ rhsm.package_profile_on_trans = "1"
    /\ rhsm.IS_YUM => rhsm.importable

C14_EnabledExactly ==
    /\ last.op = "plugin_enabled" =>
          /\ last.value \in BOOLEAN
          /\ last.value <=>
                \/ last.force
                \/ /\ EnabledIsOne(last.filepath)
                   /\ ~DisabledByEnvironment(last.variable, last.environ)
                   /\ ~SubmanReports(last.rhsm)
          /\ last.force => (last.value /\ last.calls = <<>>)
    /\ last.op = "config_enabled" =>
          /\ last.raised = "none"
          /\ last.value <=> EnabledIsOne(last.filepath)
          /\ (last.filepath.kind # "value" \/ \E i \in 1..Len(last.filepath.enabled) :
                 ~IsDigit(last.filepath.enabled[i])) => ~last.value

\* Enabled without force: the variable is set but empty, and rhsm.conf asks for
\* the profile on transactions on a yum host whose plugin cannot be imported.
C14_Witness ==
    /\ last.op = "plugin_enabled" /\ ~last.force /\ last.value
    /\ last.filepath.enabled = <<"0", "1">>
    /\ last.variable # None /\ last.environ.set
    /\ last.rhsm.package_profile_on_trans = "1" /\ last.rhsm.IS_YUM

====
